---------------------------- MODULE Spec2Model ----------------------------
(***************************************************************************)
(* Model of solver/solver.py: the Instance derivation, the four MILP       *)
(* builders (base, fixed, flex, partflex), the external solver's answer    *)
(* and the results extraction.                                             *)
(*                                                                         *)
(* Floats are exact rationals <<n, d>> (d > 0, lowest terms); <<0, 0>> is  *)
(* numpy's nan.  An Optional value is a sequence of length 0 (None) or 1.  *)
(***************************************************************************)
EXTENDS Integers, Sequences, FiniteSets, TLC

VARIABLES
    args,       \* Optional Namespace handed to Instance(args, **kwargs)
    kwargs,     \* the keyword arguments handed to Instance (a record)
    sargs,      \* the Namespace handed to Solver(args, i)
    i,          \* the instance file's JSON payload
    inst,       \* the Instance object's attributes (name -> value)
    m,          \* the Solver's Model: variable keys, zeroed UBs, constraints
    val,        \* the solver's variable values, period by period
    status,     \* the solver's terminal status after optimize
    results,    \* Optional results record
    pc,         \* position of the run
    err         \* the exception that ended the run, and where

vars == <<args, kwargs, sargs, i, inst, m, val, status, results, pc, err>>

-----------------------------------------------------------------------------
(* Bounds of the model *)

\* Largest value the solver is let to give to x, zplus or zminus.
MaxCouriers == 2

\* Largest total of the movement variables y in one assignment.
MaxMoves == 1

-----------------------------------------------------------------------------
(* Program constants *)

CAPACITY == 5

\* COST_PER_COURIER_AND_PERIOD = 1.0
COST_PER_COURIER_AND_PERIOD == <<1, 1>>

-----------------------------------------------------------------------------
(* Exact arithmetic standing for Python floats *)

Abs(n) == IF n < 0 THEN -n ELSE n

RECURSIVE GCD(_, _)
GCD(a, b) == IF b = 0 THEN a ELSE GCD(b, a % b)

NaN == <<0, 0>>

IsNaN(q) == q[2] = 0

Norm(n, d) ==
    IF d = 0 THEN NaN
    ELSE LET g == GCD(Abs(n), Abs(d))
             sgn == IF d < 0 THEN -1 ELSE 1
         IN  <<(sgn * n) \div g, (sgn * d) \div g>>

Rat(n) == <<n, 1>>

RAdd(p, q) == IF IsNaN(p) \/ IsNaN(q) THEN NaN
              ELSE Norm(p[1] * q[2] + q[1] * p[2], p[2] * q[2])

RSub(p, q) == IF IsNaN(p) \/ IsNaN(q) THEN NaN
              ELSE Norm(p[1] * q[2] - q[1] * p[2], p[2] * q[2])

RMul(p, q) == IF IsNaN(p) \/ IsNaN(q) THEN NaN
              ELSE Norm(p[1] * q[1], p[2] * q[2])

\* p / q for q # 0 (the callers test for zero first, as Python raises there)
RDiv(p, q) == IF IsNaN(p) \/ IsNaN(q) THEN NaN
              ELSE Norm(p[1] * q[2], p[2] * q[1])

RLe(p, q) == p[1] * q[2] <= q[1] * p[2]

RLt(p, q) == p[1] * q[2] < q[1] * p[2]

RMax(p, q) == IF RLe(p, q) THEN q ELSE p

\* Python's int(float): truncation toward zero
Trunc(q) == IF q[1] >= 0 THEN q[1] \div q[2] ELSE -((-q[1]) \div q[2])

RECURSIVE RSumSeq(_)
RSumSeq(s) == IF s = <<>> THEN Rat(0) ELSE RAdd(s[1], RSumSeq(Tail(s)))

\* numpy.mean: nan for an empty list
Mean(s) == IF s = <<>> THEN NaN ELSE RDiv(RSumSeq(s), Rat(Len(s)))

RECURSIVE SumSeq(_)
SumSeq(s) == IF s = <<>> THEN 0 ELSE s[1] + SumSeq(Tail(s))

RECURSIVE Flatten(_)
Flatten(ss) == IF ss = <<>> THEN <<>> ELSE ss[1] \o Flatten(Tail(ss))

Range(s) == {s[j] : j \in 1..Len(s)}

\* Python's range(a, b) as a sequence
PyRange(a, b) == [j \in 1..(IF b > a THEN b - a ELSE 0) |-> a + j - 1]

\* [f(e) for e in s]
Map(s, F(_)) == [j \in 1..Len(s) |-> F(s[j])]

None == <<>>

Some(v) == <<v>>


-----------------------------------------------------------------------------
(* Instance *)

Errors == {"KeyError", "ValueError", "NotImplementedError", "AttributeError",
           "TypeError", "ZeroDivisionError"}

\* The attributes being set on self while __compute_data runs, up to the
\* call of __get_ubs (lines 60-101).
ComputeDataHead(a, kw, payload) ==
    LET cfg == IF a = None THEN kw ELSE a[1]
        dregions == payload.geography.city.regions
        regions == Map(dregions, LAMBDA region : region.id)
        areas == Flatten(Map(dregions, LAMBDA region :
                             Map(region.areas, LAMBDA area : area.id)))
        reg_areas == [r \in Range(regions) |->
                        LET region == CHOOSE d \in Range(dregions) : d.id = r
                        IN  Map(region.areas, LAMBDA area : area.id)]
        area_regs == [ar \in Range(areas) |->
                        LET rs == SelectSeq(regions,
                                    LAMBDA r : ar \in Range(reg_areas[r]))
                        IN  rs[1]]
        \* the dict filled by the two enumerate loops: one key per entry of
        \* each sequence, whatever its length
        Entries(field) ==
            UNION { UNION { { <<<<sc.scenario_num, d.area_id, t - 1>>,
                                d[field][t]>> : t \in 1..Len(d[field]) }
                            : d \in Range(sc.data) }
                    : sc \in Range(payload.scenarios) }
        Dict(field) ==
            LET es == Entries(field)
            IN  [k \in {e[1] : e \in es} |->
                    (CHOOSE e \in es : e[1] = k)[2]]
    IN  [ reg_multiplier |-> cfg.regional_multiplier,
          glb_multiplier |-> cfg.global_multiplier,
          outsourcing_cost_multiplier |-> cfg.outsourcing_cost_multiplier,
          model |-> cfg.model,
          outsourcing_cost |-> RMul(COST_PER_COURIER_AND_PERIOD,
                                    cfg.outsourcing_cost_multiplier),
          n_regions |-> Len(dregions),
          n_areas |-> Len(areas),
          n_periods |-> payload.num_time_intervals,
          n_scenarios |-> payload.num_scenarios,
          periods |-> PyRange(0, payload.num_time_intervals),
          scenarios |-> PyRange(0, payload.num_scenarios),
          regions |-> regions,
          areas |-> areas,
          reg_areas |-> reg_areas,
          area_regs |-> area_regs,
          sdemand |-> Dict("demand"),
          srequired |-> Dict("required_couriers") ]

\* Instance.__get_ubs: [err, ub_reg, ub_global]
GetUbs(self) ==
    LET missing == \E a \in Range(self.areas), theta \in Range(self.periods),
                      s \in Range(self.scenarios) :
                      <<s, a, theta>> \notin DOMAIN self.srequired
        mhat1(a, theta) ==
            Mean(Map(self.scenarios, LAMBDA s : self.srequired[<<s, a, theta>>]))
        mhat2(a) == Mean(Map(self.periods, LAMBDA theta : mhat1(a, theta)))
        scaled(region) ==
            RMul(self.reg_multiplier,
                 RSumSeq(Map(self.reg_areas[region], LAMBDA a : mhat2(a))))
        isnan == \E region \in Range(self.regions) : IsNaN(scaled(region))
        ub_reg == [region \in Range(self.regions) |-> Trunc(scaled(region))]
        ub_global ==
            Trunc(RMul(self.glb_multiplier,
                       Rat(SumSeq(Map(self.regions, LAMBDA r : ub_reg[r])))))
    IN  IF missing THEN [err |-> "KeyError", ub_reg |-> <<>>, ub_global |-> 0]
        ELSE IF isnan
             THEN [err |-> "ValueError", ub_reg |-> <<>>, ub_global |-> 0]
             ELSE [err |-> "", ub_reg |-> ub_reg, ub_global |-> ub_global]

\* A __get_shifts that hands out the two 4-period shifts whatever the period
\* count; C5_UnsupportedPeriodCount tells the source's method from this one.
GetShiftsAnyCount(self) ==
    [err |-> "", shifts |-> <<PyRange(0, 4), PyRange(4, 8)>>]

\* Instance.__get_shifts: [err, shifts]
GetShifts(self) ==
    IF self.n_periods = 8
    THEN [err |-> "", shifts |-> <<PyRange(0, 4), PyRange(4, 8)>>]
    ELSE [err |-> "NotImplementedError", shifts |-> <<>>]

\* The branch of __compute_data for partflex (lines 106-110): the attribute
\* it sets, as a function from the attribute's name.
MaxNShiftsAttr(a, kw, self) ==
    IF self.model # "partflex" THEN [err |-> "", attr |-> <<>>]
    ELSE IF a = None
         THEN IF "max_n_shifts" \in DOMAIN kw
              THEN [err |-> "", attr |-> [max_n_shift |-> kw.max_n_shifts]]
              ELSE [err |-> "KeyError", attr |-> <<>>]
         ELSE [err |-> "", attr |-> [max_n_shifts |-> a[1].max_n_shifts]]

\* Instance.__init__ / __compute_data: [err, self]
ComputeData(a, kw, payload) ==
    LET head == ComputeDataHead(a, kw, payload)
        ubs == GetUbs(head)
        sh == GetShifts(head)
        mns == MaxNShiftsAttr(a, kw, head)
    IN  IF ubs.err # "" THEN [err |-> ubs.err, self |-> <<>>]
        ELSE IF sh.err # "" THEN [err |-> sh.err, self |-> <<>>]
        ELSE IF mns.err # "" THEN [err |-> mns.err, self |-> <<>>]
        ELSE [err |-> "",
              self |-> head @@ [ub_reg |-> ubs.ub_reg,
                                ub_global |-> ubs.ub_global,
                                shifts |-> sh.shifts] @@ mns.attr]

-----------------------------------------------------------------------------
(* Solver: the model builders *)

\* One linear constraint handed to the solver: its family, the variables'
\* indices and the coefficients captured when it was built.
Con(name, fam, r, areas, a, t, t0, s, rhs, c1, c2) ==
    [name |-> name, fam |-> fam, r |-> r, areas |-> areas, a |-> a, t |-> t,
     t0 |-> t0, s |-> s, rhs |-> rhs, c1 |-> c1, c2 |-> c2]

\* Model(): no variable, no constraint
EmptyModel ==
    [x |-> {}, omega |-> {}, y |-> {}, zplus |-> {}, zminus |-> {}, w |-> {},
     ubzero |-> [zplus |-> {}, zminus |-> {}], constrs |-> {}]

\* A weaker reg_bound family, without the constraints of the last period;
\* C1_RegionalAndGlobalBounds tells the builder's family from this one.
RegBoundButLast(self) ==
    { Con("reg_bound", "reg_bound", region, Range(self.reg_areas[region]), "",
          theta, -1, -1, self.ub_reg[region], Rat(0), Rat(0))
      : region \in Range(self.regions),
        theta \in { t \in Range(self.periods) : t + 1 < self.n_periods } }

\* the reg_bound family (lines 171-175)
RegBound(self) ==
    { Con("reg_bound", "reg_bound", region, Range(self.reg_areas[region]), "",
          theta, -1, -1, self.ub_reg[region], Rat(0), Rat(0))
      : region \in Range(self.regions), theta \in Range(self.periods) }

\* the global_bound family (lines 177-180); x.sum('*', theta)
GlobalBound(self) ==
    { Con("global_bound", "global_bound", "", Range(self.areas), "",
          theta, -1, -1, self.ub_global, Rat(0), Rat(0))
      : theta \in Range(self.periods) }

\* the set_omega family (lines 182-188)
SetOmega(self) ==
    { Con("set_omega", "set_omega", "", {}, a, theta, -1, s, 0,
          self.srequired[<<s, a, theta>>],
          RMul(self.sdemand[<<s, a, theta>>], self.outsourcing_cost))
      : a \in Range(self.areas), theta \in Range(self.periods),
        s \in Range(self.scenarios) }

\* Solver.__build_base_model: [err, m]
BuildBaseModel(self) ==
    LET m1 == [EmptyModel EXCEPT
                 !.x = Range(self.areas) \X Range(self.periods),
                 !.omega = Range(self.areas) \X Range(self.periods)
                             \X Range(self.scenarios),
                 !.constrs = RegBound(self) \cup GlobalBound(self)]
        missing == \E a \in Range(self.areas), theta \in Range(self.periods),
                      s \in Range(self.scenarios) :
                      \/ <<s, a, theta>> \notin DOMAIN self.srequired
                      \/ <<s, a, theta>> \notin DOMAIN self.sdemand
    IN  IF missing THEN [err |-> "KeyError", m |-> m1]
        ELSE [err |-> "",
              m |-> [m1 EXCEPT !.constrs = @ \cup SetOmega(self)]]

\* An __add_y_vars that also creates y between areas of different regions;
\* C11_RegionalStaffing tells the source's method from this one.
AddYVarsAcrossRegions(self, mm) ==
    [mm EXCEPT !.y =
        { <<a1, a2, theta>> \in
            Range(self.areas) \X Range(self.areas) \X Range(self.periods) :
            a1 # a2 }]

\* Solver.__add_y_vars
AddYVars(self, mm) ==
    [mm EXCEPT !.y =
        { <<a1, a2, theta>> \in
            Range(self.areas) \X Range(self.areas) \X Range(self.periods) :
            a1 # a2 /\ self.area_regs[a1] = self.area_regs[a2] }]

\* shift[1:-1] of every shift, with shift[0]: a shorter tail that leaves the
\* last period of each shift free; C2_FixedShiftConstant tells them apart.
ShiftTailButLast(self) ==
    UNION { { <<shift[j], shift[1]>> : j \in 2..(Len(shift) - 1) }
            : shift \in Range(self.shifts) }

\* shift[1:] of every shift, with shift[0]: the pairs <<theta, shift[0]>>
ShiftTail(self) ==
    UNION { { <<shift[j], shift[1]>> : j \in 2..Len(shift) }
            : shift \in Range(self.shifts) }

\* fixed: fix_region_n_couriers_in_shift (lines 204-209)
FixedRegionShift(self) ==
    { Con("fix_region_n_couriers_in_shift", "fix_shift", region,
          Range(self.reg_areas[region]), "", p[1], p[2], -1, 0, Rat(0), Rat(0))
      : region \in Range(self.regions), p \in ShiftTail(self) }

\* fixed: flow_balance (lines 211-217)
FixedFlowBalance(self) ==
    UNION { { Con("flow_balance", "flow_fixed", region, {}, a1, p[1], -1, -1,
                  0, Rat(0), Rat(0))
              : a1 \in Range(self.reg_areas[region]), p \in ShiftTail(self) }
            : region \in Range(self.regions) }

\* Solver.__build_fixed_model: [err, m]
BuildFixedModel(self) ==
    LET b == BuildBaseModel(self)
    IN  IF b.err # "" THEN b
        ELSE [err |-> "",
              m |-> [AddYVars(self, b.m) EXCEPT !.constrs =
                        @ \cup FixedRegionShift(self)
                          \cup FixedFlowBalance(self)]]

\* range(n_periods - shift_len + 1, n_periods): zminus[a, theta].UB = 0
ZminusZeroPeriods(self, shift_len) ==
    Range(PyRange(self.n_periods - shift_len + 1, self.n_periods))

\* range(shift_len - 1): zplus[a, theta].UB = 0
ZplusZeroPeriods(self, shift_len) == Range(PyRange(0, shift_len - 1))

\* flex: fix_region_n_couriers_in_shift (lines 239-245)
FlexShiftBalance(self, shift_len) ==
    { Con("fix_region_n_couriers_in_shift", "shift_balance", region,
          Range(self.reg_areas[region]), "", theta, theta + shift_len - 1, -1,
          0, Rat(0), Rat(0))
      : region \in Range(self.regions),
        theta \in { t \in Range(self.periods) :
                      t < self.n_periods + 1 - shift_len } }

\* A weaker flow_balance family, without the constraints of the last period;
\* C3_FlowBalanceExact tells the builder's family from this one.
FlexFlowBalanceButLast(self) ==
    UNION { { Con("flow_balance", "flow_flex", region, {}, a1, theta, -1, -1,
                  0, Rat(0), Rat(0))
              : a1 \in Range(self.reg_areas[region]),
                theta \in { t \in Range(self.periods) :
                              t > 0 /\ t + 1 < self.n_periods } }
            : region \in Range(self.regions) }

\* flex: flow_balance (lines 247-257)
FlexFlowBalance(self) ==
    UNION { { Con("flow_balance", "flow_flex", region, {}, a1, theta, -1, -1,
                  0, Rat(0), Rat(0))
              : a1 \in Range(self.reg_areas[region]),
                theta \in { t \in Range(self.periods) : t > 0 } }
            : region \in Range(self.regions) }

\* flex: flow_balance_first_period (lines 259-262)
FlexFlowFirst(self) ==
    { Con("flow_balance_first_period", "flow_first", "", {}, a, 0, -1, -1, 0,
          Rat(0), Rat(0))
      : a \in Range(self.areas) }

\* Solver.__build_flexible_model: [err, m].  For n_periods # 8 the method
\* returns (it does not raise) after creating the variables.
BuildFlexibleModel(self) ==
    LET b == BuildBaseModel(self)
        m1 == [AddYVars(self, b.m) EXCEPT
                 !.zplus = Range(self.areas) \X Range(self.periods),
                 !.zminus = Range(self.areas) \X Range(self.periods)]
        shift_len == 4
        m2 == [m1 EXCEPT
                 !.ubzero = [zminus |-> Range(self.areas)
                                          \X ZminusZeroPeriods(self, shift_len),
                             zplus |-> Range(self.areas)
                                          \X ZplusZeroPeriods(self, shift_len)],
                 !.constrs = @ \cup FlexShiftBalance(self, shift_len)
                               \cup FlexFlowBalance(self)
                               \cup FlexFlowFirst(self)]
    IN  IF b.err # "" THEN b
        ELSE IF self.n_periods = 8 THEN [err |-> "", m |-> m2]
        ELSE [err |-> "", m |-> m1]

\* range(n_periods - shift_len + 1)
WIdx(self, shift_len) == Range(PyRange(0, self.n_periods - shift_len + 1))

\* A weaker link_z_w family, without the constraints of the last period that
\* has a w variable; C4_ShiftStartsCapped tells the builder's family from it.
LinkZWButLast(self, shift_len) ==
    { Con("link_z_w", "link_z_w", region, Range(self.reg_areas[region]), "",
          theta, -1, -1, self.ub_reg[region], Rat(0), Rat(0))
      : region \in Range(self.regions),
        theta \in { t \in WIdx(self, shift_len) :
                      t < self.n_periods - shift_len } }

\* partflex: link_z_w (lines 275-279)
LinkZW(self, shift_len) ==
    { Con("link_z_w", "link_z_w", region, Range(self.reg_areas[region]), "",
          theta, -1, -1, self.ub_reg[region], Rat(0), Rat(0))
      : region \in Range(self.regions), theta \in WIdx(self, shift_len) }

\* partflex: limit_n_shifts (line 281), for a cap that is an integer
LimitNShifts(self, shift_len) ==
    Con("limit_n_shifts", "limit_n_shifts", "", {}, "",
        self.n_periods - shift_len, -1, -1, self.max_n_shifts[1],
        Rat(0), Rat(0))

\* Solver.__build_partflex_model: [err, m].  Line 281 reads self.i.max_n_shifts
\* after w and link_z_w were added: a missing attribute raises AttributeError,
\* and the library rejects a comparison of w.sum() with None (the error is
\* recorded as TypeError).
BuildPartflexModel(self) ==
    LET f == BuildFlexibleModel(self)
        shift_len == 4
        m1 == [f.m EXCEPT
                 !.w = WIdx(self, shift_len),
                 !.constrs = @ \cup LinkZW(self, shift_len)]
    IN  IF f.err # "" THEN f
        ELSE IF self.n_periods # 8 THEN f
        ELSE IF "max_n_shifts" \notin DOMAIN self
             THEN [err |-> "AttributeError", m |-> m1]
        ELSE IF self.max_n_shifts = None
             THEN [err |-> "TypeError", m |-> m1]
        ELSE [err |-> "",
              m |-> [m1 EXCEPT !.constrs = @ \cup {LimitNShifts(self, shift_len)}]]

\* The builder each solve_* method calls (lines 302-320)
Build(model, self) ==
    CASE model = "base" -> BuildBaseModel(self)
      [] model = "fixed" -> BuildFixedModel(self)
      [] model = "flex" -> BuildFlexibleModel(self)
      [] model = "partflex" -> BuildPartflexModel(self)

-----------------------------------------------------------------------------
(* The external solver: any values that satisfy the constraints it was given *)

\* sum(f[e] for e in S)
RECURSIVE SumFn(_, _)
SumFn(f, S) ==
    IF S = {} THEN 0
    ELSE LET e == CHOOSE e \in S : TRUE IN f[e] + SumFn(f, S \ {e})

\* sum(F(e) for e in S)
SumOver(S, F(_)) == SumFn([e \in S |-> F(e)], S)

\* Values of the variables, by period: v.x[theta + 1][a] is x[a, theta].X
NoValues ==
    [x |-> <<>>, y |-> <<>>, zminus |-> <<>>, zplus |-> <<>>, w |-> <<>>,
     moved |-> 0]

XV(v, a, theta) == v.x[theta + 1][a]

ZminusV(v, a, theta) == v.zminus[theta + 1][a]

ZplusV(v, a, theta) == v.zplus[theta + 1][a]

WV(v, theta) == v.w[theta + 1]

\* y.sum('*', a1, theta); v.y[theta + 1] holds the y variables of theta
YIn(v, a1, theta) ==
    SumFn(v.y[theta + 1], {q \in DOMAIN v.y[theta + 1] : q[2] = a1})

\* y.sum(a1, '*', theta)
YOut(v, a1, theta) ==
    SumFn(v.y[theta + 1], {q \in DOMAIN v.y[theta + 1] : q[1] = a1})

\* sum(x[a, theta] for a in areas)
XSum(v, areas, theta) == SumFn(v.x[theta + 1], areas)

ZminusSum(v, areas, theta) == SumFn(v.zminus[theta + 1], areas)

ZplusSum(v, areas, theta) == SumFn(v.zplus[theta + 1], areas)

\* Whether the values v satisfy constraint c.  omega is continuous, >= 0 and
\* in no other constraint: set_omega holds for some omega unless its
\* coefficient c1 is <= 0 and the right-hand side is positive.
Holds(c, v, mm) ==
    CASE c.fam = "reg_bound" -> XSum(v, c.areas, c.t) <= c.rhs
      [] c.fam = "global_bound" -> XSum(v, c.areas, c.t) <= c.rhs
      [] c.fam = "set_omega" ->
            \/ RLt(Rat(0), c.c1)
            \/ RLe(RMul(RSub(c.c1, Rat(XV(v, c.a, c.t))), c.c2), Rat(0))
      [] c.fam = "fix_shift" -> XSum(v, c.areas, c.t) = XSum(v, c.areas, c.t0)
      [] c.fam = "flow_fixed" ->
            XV(v, c.a, c.t) = XV(v, c.a, c.t - 1) + YIn(v, c.a, c.t)
                                - YOut(v, c.a, c.t)
      [] c.fam = "shift_balance" ->
            ZminusSum(v, c.areas, c.t) = ZplusSum(v, c.areas, c.t0)
      [] c.fam = "flow_flex" ->
            XV(v, c.a, c.t) = XV(v, c.a, c.t - 1) + YIn(v, c.a, c.t)
                                - YOut(v, c.a, c.t)
                                + ZminusV(v, c.a, c.t) - ZplusV(v, c.a, c.t - 1)
      [] c.fam = "flow_first" -> XV(v, c.a, 0) = ZminusV(v, c.a, 0)
      [] c.fam = "link_z_w" ->
            ZminusSum(v, c.areas, c.t) <= c.rhs * WV(v, c.t)
      [] c.fam = "limit_n_shifts" ->
            SumOver(mm.w, LAMBDA theta : WV(v, theta)) <= c.rhs

\* The period whose values complete constraint c
Last(c) == IF c.t0 > c.t THEN c.t0 ELSE c.t

\* The variables a constraint of this family reads at its last period, as the
\* stage of the period's values that completes it: x, then y, zminus, w, zplus
Stage(c) ==
    CASE c.fam \in {"reg_bound", "global_bound", "set_omega", "fix_shift"} -> 1
      [] c.fam = "flow_fixed" -> 2
      [] c.fam \in {"flow_flex", "flow_first"} -> 3
      [] c.fam \in {"link_z_w", "limit_n_shifts"} -> 4
      [] c.fam = "shift_balance" -> 5

\* v with one more period of values
Ext(v, xs, ys, zm, wv, zp) ==
    [x |-> Append(v.x, xs), y |-> Append(v.y, ys),
     zminus |-> Append(v.zminus, zm), zplus |-> Append(v.zplus, zp),
     w |-> Append(v.w, wv),
     moved |-> v.moved + SumFn(ys, DOMAIN ys)]

\* The values the solver may give the variables of period k after v: the
\* integer variables within their bounds (lb = 0, UB where set), w binary,
\* every constraint completed by period k satisfied.  The values are chosen
\* in stages (x, y, zminus, w, zplus), each stage keeping the choices that
\* satisfy the constraints it completes.  A stage-3 constraint reads one
\* zminus of period k, that of its own area.
Candidates(k, v, mm) ==
    LET keys(S) == {key[1] : key \in {q \in S : q[2] = k}}
        xkeys == keys(mm.x)
        zmkeys == keys(mm.zminus)
        zpkeys == keys(mm.zplus)
        ykeys == {<<key[1], key[2]>> : key \in {q \in mm.y : q[3] = k}}
        due(st) == {c : c \in {d \in mm.constrs : Last(d) = k /\ Stage(d) = st}}
        due1 == due(1)
        due2 == due(2)
        due3 == due(3)
        due4 == due(4)
        due5 == due(5)
        ok(cs, xs, ys, zm, wv, zp) ==
            cs = {} \/ LET v1 == Ext(v, xs, ys, zm, wv, zp)
                       IN  \A c \in cs : Holds(c, v1, mm)
        dom(fam, a) == IF <<a, k>> \in mm.ubzero[fam] THEN {0}
                       ELSE 0..MaxCouriers
        X1 == {e : e \in {xs \in [xkeys -> 0..MaxCouriers] :
                            ok(due1, xs, <<>>, <<>>, 0, <<>>)}}
        Y0 == {e : e \in {ys \in [ykeys -> 0..(MaxMoves - v.moved)] :
                            SumFn(ys, ykeys) <= MaxMoves - v.moved}}
        \* the zminus values of period k, area by area, given x and y
        ZM3(xs, ys) ==
            LET fits == {e : e \in {p \in zmkeys \X (0..MaxCouriers) :
                           /\ p[2] \in dom("zminus", p[1])
                           /\ ok({c \in due3 : c.a = p[1]}, xs, ys,
                                 [b \in zmkeys |-> p[2]], 0, <<>>)}}
            IN  {zm \in [zmkeys -> 0..MaxCouriers] :
                   \A a \in zmkeys : <<a, zm[a]>> \in fits}
        ZP0 == {e : e \in {zp \in [zpkeys -> 0..MaxCouriers] :
                             \A a \in zpkeys : zp[a] \in dom("zplus", a)}}
        \* the stage-5 constraints read zminus of an earlier period only
        early5 == \A c \in due5 : c.t < k
        ZPearly == {e : e \in {g \in ZP0 : ok(due5, <<>>, <<>>, <<>>, 0, g)}}
        ZP5(p) == IF early5 THEN ZPearly
                  ELSE {g \in ZP0 : ok(due5, p[1], p[2], p[3], p[4], g)}
        W0 == IF k \in mm.w THEN {0, 1} ELSE {0}
        S2 == UNION { { <<xs, ys>> : ys \in
                          {g \in Y0 : ok(due2, xs, g, <<>>, 0, <<>>)} }
                      : xs \in X1 }
        S3 == UNION { { <<p[1], p[2], zm>> : zm \in ZM3(p[1], p[2]) }
                      : p \in S2 }
        S4 == UNION { { <<p[1], p[2], p[3], wv>> : wv \in
                          {g \in W0 : ok(due4, p[1], p[2], p[3], g, <<>>)} }
                      : p \in S3 }
    IN  UNION { { [x |-> p[1], y |-> p[2], zminus |-> p[3], w |-> p[4],
                   zplus |-> zp] : zp \in ZP5(p) }
                : p \in S4 }

-----------------------------------------------------------------------------
(* Solver: results extraction *)

\* [s for s in scenarios if srequired[s, a, theta] > 0]
ScenariosWithDemand(self, a, theta) ==
    SelectSeq(self.scenarios,
              LAMBDA s : RLt(Rat(0), self.srequired[<<s, a, theta>>]))

\* One pass of the loop body of lines 357-390: what is appended to
\* outsourced, outsourced_pct and inhouse for area a and period theta.
ParcelEstimates(self, v, a, theta) ==
    LET sw == ScenariosWithDemand(self, a, theta)
        x == Rat(XV(v, a, theta))
        req(s) == self.srequired[<<s, a, theta>>]
        dem(s) == self.sdemand[<<s, a, theta>>]
        tot_outsourced ==
            RSumSeq(Map(sw, LAMBDA s :
                RDiv(RMul(RSub(req(s), x), dem(s)), req(s))))
        tot_outsourced_pct ==
            RSumSeq(Map(sw, LAMBDA s :
                RDiv(RMul(Rat(100), RSub(req(s), x)), req(s))))
        tot_inhouse ==
            RSumSeq(Map(sw, LAMBDA s : RDiv(RMul(dem(s), x), req(s))))
    IN  IF Len(sw) = 0
        THEN [outsourced |-> Rat(0), outsourced_pct |-> Rat(0),
              inhouse |-> Rat(0)]
        ELSE [outsourced |->
                  RDiv(RMax(tot_outsourced, Rat(0)), Rat(Len(sw))),
              outsourced_pct |->
                  RDiv(RMax(tot_outsourced_pct, Rat(0)), Rat(Len(sw))),
              inhouse |-> RDiv(tot_inhouse, Rat(Len(sw)))]

\* sum(x[a, theta].X for a, theta in x)
HiringCosts(mm, v) == SumOver(mm.x, LAMBDA k : XV(v, k[1], k[2]))

\* The denominator of regional_hired_pct (line 397)
RegionalDenominator(self, region) == self.ub_reg[region] * self.n_periods

\* The denominator of global_avg_hired_pct (line 401)
GlobalDenominator(self) == self.ub_global * self.n_periods

\* Reading m.ObjVal (or any X) of a model the solver left without a
\* solution raises in the solver's library.
HasSolution(st) == st = "OPTIMAL"

\* Solver.__basic_results: [err, results]
BasicResults(self, sa, mm, v, st) ==
    LET est == [k \in Range(self.areas) \X Range(self.periods) |->
                    ParcelEstimates(self, v, k[1], k[2])]
        hiring_costs == HiringCosts(mm, v)
        regional_hired_pct ==
            [region \in Range(self.regions) |->
                RDiv(Rat(100 * SumOver(
                        Range(self.reg_areas[region]) \X Range(self.periods),
                        LAMBDA k : XV(v, k[1], k[2]))),
                     Rat(RegionalDenominator(self, region)))]
    IN  IF ~HasSolution(st)
        THEN [err |-> "AttributeError", results |-> None]
        ELSE IF \E region \in Range(self.regions) :
                    RegionalDenominator(self, region) = 0
        THEN [err |-> "ZeroDivisionError", results |-> None]
        ELSE IF GlobalDenominator(self) = 0
        THEN [err |-> "ZeroDivisionError", results |-> None]
        ELSE [err |-> "",
              results |-> Some(
                [model |-> sa.model,
                 num_periods |-> self.n_periods,
                 num_scenarios |-> self.n_scenarios,
                 hiring_costs |-> hiring_costs,
                 hired_couriers |->
                    [a \in Range(self.areas) |->
                        Map(self.periods, LAMBDA theta : XV(v, a, theta))],
                 outsourced_parcels |->
                    [a \in Range(self.areas) |->
                        Map(self.periods, LAMBDA theta :
                            est[<<a, theta>>].outsourced)],
                 inhouse_parcels |->
                    [a \in Range(self.areas) |->
                        Map(self.periods, LAMBDA theta :
                            est[<<a, theta>>].inhouse)],
                 regional_hired_pct |-> regional_hired_pct,
                 regional_avg_hired_pct |->
                    Mean(Map(self.regions, LAMBDA r : regional_hired_pct[r])),
                 global_avg_hired_pct |->
                    RDiv(Rat(100 * hiring_costs),
                         Rat(GlobalDenominator(self)))])]

\* Solver.__fixed_results
FixedResults(self, sa, mm, v, st) ==
    LET b == BasicResults(self, sa, mm, v, st)
    IN  IF b.err # "" THEN b
        ELSE [b EXCEPT !.results =
                Some(b.results[1] @@ [n_shift_start_periods |-> 2])]

\* Solver.__flex_results; zminus[a, theta].X > 0.1 on integer values
FlexResults(self, sa, mm, v, st) ==
    LET b == BasicResults(self, sa, mm, v, st)
        started == { theta \in Range(self.periods) :
                       /\ \E a \in Range(self.areas) : <<a, theta>> \in mm.zminus
                       /\ \E a \in Range(self.areas) :
                            ZminusV(v, a, theta) > 0 }
        periods_with_start == Cardinality(started)
    IN  IF b.err # "" THEN b
        ELSE [b EXCEPT !.results =
                Some(b.results[1] @@
                     [periods_with_start |-> periods_with_start,
                      periods_with_start_pct |->
                        RDiv(Rat(100 * periods_with_start),
                             Rat(self.n_periods))])]

\* The results method each solve_* method returns (lines 302-320)
Results(model, self, sa, mm, v, st) ==
    CASE model = "base" -> BasicResults(self, sa, mm, v, st)
      [] model = "fixed" -> FixedResults(self, sa, mm, v, st)
      [] model \in {"flex", "partflex"} -> FlexResults(self, sa, mm, v, st)

-----------------------------------------------------------------------------
(* The run: Instance(...), then solver.solve_<model>() *)

NoError == [kind |-> "", at |-> ""]

\* i = Instance(args=args) or Instance(None, **kwargs)
Construct ==
    /\ pc = "start"
    /\ LET r == ComputeData(args, kwargs, i)
       IN  IF r.err = ""
           THEN /\ inst' = r.self
                /\ pc' = "instance"
                /\ err' = err
           ELSE /\ inst' = inst
                /\ pc' = "error"
                /\ err' = [kind |-> r.err, at |-> "instance"]
    /\ UNCHANGED <<args, kwargs, sargs, i, m, val, status, results>>

\* solve_<model>: the call of the builder
BuildModel ==
    /\ pc = "instance"
    /\ LET b == Build(sargs.model, inst)
       IN  /\ m' = b.m
           /\ IF b.err = ""
              THEN pc' = "built" /\ err' = err
              ELSE pc' = "error" /\ err' = [kind |-> b.err, at |-> "build"]
    /\ UNCHANGED <<args, kwargs, sargs, i, inst, val, status, results>>

\* solve_<model>: m.optimize() starts; a model whose first period admits no
\* values satisfying its constraints is reported infeasible.
Optimize ==
    /\ pc = "built"
    /\ IF Candidates(0, NoValues, m) = {}
       THEN pc' = "solved" /\ status' = "INFEASIBLE"
       ELSE pc' = "solving" /\ status' = status
    /\ val' = NoValues
    /\ UNCHANGED <<args, kwargs, sargs, i, inst, m, results, err>>

\* m.optimize() settles the values of one more period; with the last period
\* it returns.
AssignPeriod ==
    /\ pc = "solving"
    /\ Len(val.x) < inst.n_periods
    /\ \E p \in Candidates(Len(val.x), val, m) :
          val' = Ext(val, p.x, p.y, p.zminus, p.w, p.zplus)
    /\ IF Len(val.x) + 1 = inst.n_periods
       THEN pc' = "solved" /\ status' = "OPTIMAL"
       ELSE pc' = pc /\ status' = status
    /\ UNCHANGED <<args, kwargs, sargs, i, inst, m, results, err>>

\* solve_<model>: return self.__<model>_results()
Extract ==
    /\ pc = "solved"
    /\ LET r == Results(sargs.model, inst, sargs, m, val, status)
       IN  IF r.err = ""
           THEN /\ results' = r.results
                /\ pc' = "done"
                /\ err' = err
           ELSE /\ results' = results
                /\ pc' = "error"
                /\ err' = [kind |-> r.err, at |-> "results"]
    /\ UNCHANGED <<args, kwargs, sargs, i, inst, m, val, status>>

Next == Construct \/ BuildModel \/ Optimize \/ AssignPeriod \/ Extract

-----------------------------------------------------------------------------
(* Inputs: instance files and command lines *)

\* one region of one area
Geo1 == << [id |-> "R1", areas |-> << [id |-> "A1"] >>] >>

\* two regions: R1 of two areas, R2 of one
Geo3 == << [id |-> "R1", areas |-> << [id |-> "A1"], [id |-> "A2"] >>],
           [id |-> "R2", areas |-> << [id |-> "A3"] >>] >>

\* required_couriers[theta] of scenario s and area a, by data profile
Required(profile, s, a, theta) ==
    CASE profile = "unit" -> Rat(1)
      [] profile = "zero" -> Rat(0)
      [] profile = "half" ->
            \* each area needs a courier in one of the two scenarios
            IF (a = "A2") = (s = 1) THEN Rat(1) ELSE Rat(0)
      [] profile = "mixed" ->
            \* per period mod 4: (1, 3), (1, 0), (0, 0), (0, 2)
            LET ph == theta % 4
            IN  IF s = 0 THEN (IF ph < 2 THEN Rat(1) ELSE Rat(0))
                ELSE (IF ph = 0 THEN Rat(3)
                      ELSE IF ph = 3 THEN Rat(2) ELSE Rat(0))

\* demand[theta]: a courier's capacity per required courier, plus s parcels
Demand(profile, s, a, theta) ==
    RAdd(RMul(Rat(CAPACITY), Required(profile, s, a, theta)), Rat(s))

\* The JSON payload of an instance file whose demand sequences have dlen
\* entries and whose required_couriers sequences have rlen entries
Payload(regs, nper, nscen, dlen, rlen, profile) ==
    [ geography |-> [city |-> [regions |-> regs]],
      num_time_intervals |-> nper,
      num_scenarios |-> nscen,
      scenarios |->
        [ sn \in 1..nscen |->
            [ scenario_num |-> sn - 1,
              data |-> Flatten(Map(regs, LAMBDA region :
                  Map(region.areas, LAMBDA area :
                      [ area_id |-> area.id,
                        demand |-> [t \in 1..dlen |->
                            Demand(profile, sn - 1, area.id, t - 1)],
                        required_couriers |-> [t \in 1..rlen |->
                            Required(profile, sn - 1, area.id, t - 1)] ]))) ] ] ]

\* The parsed command line
Namespace(model, oc, rm, gm, mns) ==
    [ model |-> model, instance |-> "instance.json",
      outsourcing_cost_multiplier |-> oc, regional_multiplier |-> rm,
      global_multiplier |-> gm, max_n_shifts |-> mns ]

\* The same options as keyword arguments; max_n_shifts only when given
Keywords(ns) ==
    [ model |-> ns.model, instance |-> ns.instance,
      outsourcing_cost_multiplier |-> ns.outsourcing_cost_multiplier,
      regional_multiplier |-> ns.regional_multiplier,
      global_multiplier |-> ns.global_multiplier ]
    @@ (IF ns.max_n_shifts = None THEN <<>>
        ELSE [max_n_shifts |-> ns.max_n_shifts])

Models == {"base", "fixed", "partflex", "flex"}

\* The state before Instance(...) is called
Start(path, ns, payload) ==
    /\ args = (IF path = "args" THEN Some(ns) ELSE None)
    /\ kwargs = (IF path = "args" THEN <<>> ELSE Keywords(ns))
    /\ sargs = ns
    /\ i = payload
    /\ inst = <<>>
    /\ m = EmptyModel
    /\ val = NoValues
    /\ status = ""
    /\ results = None
    /\ pc = "start"
    /\ err = NoError

\* Runs of every model on either construction path, over instance files
\* whose period count and sequence lengths vary, with a regional multiplier
\* of either sign.
Init ==
    \E path \in {"args", "kwargs"}, model \in Models,
       mns \in {None, Some(1)}, nper \in {0, 6, 8, 9},
       dd \in {-1, 0, 1}, rd \in {-1, 0, 1},
       rm \in {Rat(1), Rat(-1)} :
        /\ nper + dd >= 0
        /\ nper + rd >= 0
        /\ Start(path, Namespace(model, Rat(2), rm, Rat(1), mns),
                 Payload(Geo1, nper, 1, nper + dd, nper + rd, "unit"))

Spec == Init /\ [][Next]_vars

\* Well-formed 8-period instances of two regions, solved by each model: with
\* multipliers (1, 1) the bounds are 1 and 0 per region and 1 globally, with
\* (1, 1/2) they are 1 and 0 per region and 0 globally, with (2, 1/2) they
\* are 2 and 1 per region and 1 globally.
ModelRuns ==
    { <<"base", None, Rat(1), Rat(1)>>,
      <<"base", None, Rat(1), <<1, 2>> >>,
      <<"fixed", None, Rat(1), Rat(1)>>,
      <<"fixed", None, Rat(2), <<1, 2>> >>,
      <<"flex", None, Rat(1), Rat(1)>>,
      <<"flex", None, Rat(2), <<1, 2>> >>,
      <<"partflex", Some(1), Rat(1), Rat(1)>>,
      <<"partflex", Some(2), Rat(1), Rat(1)>> }

InitModel ==
    \E run \in ModelRuns :
        Start("args", Namespace(run[1], Rat(2), run[3], run[4], run[2]),
              Payload(Geo3, 8, 2, 8, 8, "half"))

SpecModel == InitModel /\ [][Next]_vars

\* Well-formed 8-period instances of one area whose required couriers are
\* zero in some or all periods, solved and extracted.
InitResults ==
    \E model \in Models, profile \in {"mixed", "zero"},
       mult \in { <<Rat(3), Rat(1)>>, <<Rat(3), <<1, 4>> >>,
                  <<Rat(1), Rat(1)>> } :
        Start("args",
              Namespace(model, Rat(2), mult[1], mult[2],
                        IF model = "partflex" THEN Some(1) ELSE None),
              Payload(Geo1, 8, 2, 8, 8, profile))

SpecResults == InitResults /\ [][Next]_vars

-----------------------------------------------------------------------------
(* Properties of the solved models (SpecModel) *)

\* The solver returned an assignment satisfying the built constraints
Solved == status = "OPTIMAL"

RegionAreas(region) == Range(inst.reg_areas[region])

\* C1: in every variant, every assignment satisfying the built constraints
\* has, for every region and period, the sum of x over the region's areas
\* <= ub_reg[region] and, for every period, the sum of x over all areas
\* <= ub_global.
C1_RegionalAndGlobalBounds ==
    Solved =>
        \A theta \in Range(inst.periods) :
            /\ \A region \in Range(inst.regions) :
                  XSum(val, RegionAreas(region), theta) <= inst.ub_reg[region]
            /\ XSum(val, Range(inst.areas), theta) <= inst.ub_global

\* A solved flex model where, at some period, the global bound is reached
\* while a region with hired couriers stays below its regional bound, and at
\* another period a region reaches its regional bound.
C1_Witness ==
    /\ Solved
    /\ sargs.model = "flex"
    /\ \E theta \in Range(inst.periods), region \in Range(inst.regions) :
          /\ XSum(val, Range(inst.areas), theta) = inst.ub_global
          /\ XSum(val, RegionAreas(region), theta) > 0
          /\ XSum(val, RegionAreas(region), theta) < inst.ub_reg[region]
    /\ \E theta \in Range(inst.periods), region \in Range(inst.regions) :
          /\ inst.ub_reg[region] > 0
          /\ XSum(val, RegionAreas(region), theta) = inst.ub_reg[region]

\* C2: in the fixed variant, for every region and each of the two shifts
\* (periods 0-3 and 4-7), the regional total of x at every period of the
\* shift equals the total at the shift's first period.
C2_FixedShiftConstant ==
    (Solved /\ sargs.model = "fixed") =>
        /\ inst.shifts = << <<0, 1, 2, 3>>, <<4, 5, 6, 7>> >>
        /\ \A region \in Range(inst.regions), shift \in Range(inst.shifts) :
              \A theta \in Range(shift) :
                  XSum(val, RegionAreas(region), theta)
                    = XSum(val, RegionAreas(region), shift[1])

\* A solved fixed model where a region's total differs between the two
\* shifts and a courier moves between two areas inside a shift.
C2_Witness ==
    /\ Solved
    /\ sargs.model = "fixed"
    /\ \E region \in Range(inst.regions) :
          /\ XSum(val, RegionAreas(region), 0) > 0
          /\ XSum(val, RegionAreas(region), 0)
               # XSum(val, RegionAreas(region), 4)
          /\ \E a \in RegionAreas(region), theta \in {1, 2, 3} :
                XV(val, a, theta) # XV(val, a, theta - 1)

\* C3: in the flex and partflex variants, for every area a, x[a,0] =
\* zminus[a,0] and, for every period theta > 0, x[a,theta] = x[a,theta-1]
\* + (y into a at theta) - (y out of a at theta) + zminus[a,theta]
\* - zplus[a,theta-1], with equality.
C3_FlowBalanceExact ==
    (Solved /\ sargs.model \in {"flex", "partflex"}) =>
        \A a \in Range(inst.areas) :
            /\ XV(val, a, 0) = ZminusV(val, a, 0)
            /\ \A theta \in Range(inst.periods) :
                  theta > 0 =>
                    XV(val, a, theta) =
                        XV(val, a, theta - 1) + YIn(val, a, theta)
                          - YOut(val, a, theta) + ZminusV(val, a, theta)
                          - ZplusV(val, a, theta - 1)

\* A solved partflex model where, at one period, an area receives a moved
\* courier, and at another an area sees a shift end and a shift start.
C3_Witness ==
    /\ Solved
    /\ sargs.model = "partflex"
    /\ \E a \in Range(inst.areas), theta \in Range(inst.periods) :
          theta > 0 /\ YIn(val, a, theta) > 0
    /\ \E a \in Range(inst.areas), theta \in Range(inst.periods) :
          /\ theta > 0
          /\ ZminusV(val, a, theta) > 0
          /\ ZplusV(val, a, theta - 1) > 0

\* the periods theta with w[theta] = 1
ShiftStartPeriods == {theta \in m.w : WV(val, theta) = 1}

\* C4: in the partflex variant at most max_n_shifts periods have
\* w[theta] = 1, and every period at which some region has a positive total
\* of zminus has a w variable whose value is 1.
C4_ShiftStartsCapped ==
    (Solved /\ sargs.model = "partflex") =>
        /\ Cardinality(ShiftStartPeriods) <= sargs.max_n_shifts[1]
        /\ \A theta \in Range(inst.periods), region \in Range(inst.regions) :
              ZminusSum(val, RegionAreas(region), theta) > 0
                => theta \in ShiftStartPeriods

\* A solved partflex model allowed two shift starts that uses both, each
\* with a positive regional total of zminus.
C4_Witness ==
    /\ Solved
    /\ sargs.model = "partflex"
    /\ sargs.max_n_shifts = Some(2)
    /\ Cardinality(ShiftStartPeriods) = 2
    /\ \A theta \in ShiftStartPeriods :
          \E region \in Range(inst.regions) :
              ZminusSum(val, RegionAreas(region), theta) > 0

-----------------------------------------------------------------------------
(* Properties of a run's failures (Spec) *)

\* The lengths of the sequences of the instance file, by field
SeqLens(field) ==
    UNION { { Len(d[field]) : d \in Range(sc.data) }
            : sc \in Range(i.scenarios) }

\* __get_ubs finds every required_couriers entry it reads, over at least
\* one period
BoundsDerivable ==
    /\ i.num_time_intervals > 0
    /\ \A n \in SeqLens("required_couriers") : n >= i.num_time_intervals

\* No model was built, solved or extracted
NothingBuilt == m = EmptyModel /\ val = NoValues /\ results = None

WellFormed ==
    /\ i.num_time_intervals = 8
    /\ SeqLens("required_couriers") = {8}
    /\ SeqLens("demand") = {8}

\* C6: a partflex run without a max-shift-count fails with a configuration
\* error before any model construction starts (no variable or constraint is
\* created); with a max-shift-count, on either construction path, the value
\* is the right-hand side of the limit_n_shifts constraint of the model.
C6_MaxShiftCountChecked ==
    (sargs.model = "partflex" /\ WellFormed) =>
        /\ (sargs.max_n_shifts = None /\ pc # "start") =>
              /\ pc = "error"
              /\ err.at = "instance"
              /\ NothingBuilt
        /\ (sargs.max_n_shifts # None /\ pc \notin {"start", "instance"}) =>
              /\ err.at # "build"
              /\ \E c \in m.constrs :
                    /\ c.fam = "limit_n_shifts"
                    /\ c.rhs = sargs.max_n_shifts[1]

\* C7: when optimize returns with a status that carries no solution, the
\* solve operation reports a solver failure before results extraction reads
\* any value, and no results record is produced.
C7_SolverFailureDetected ==
    (status = "INFEASIBLE" /\ pc # "solved") =>
        /\ pc = "error"
        /\ err.at = "solve"
        /\ results = None

\* C9: instance loading fails with an input error, before any model
\* construction, whenever a demand or required_couriers sequence has a
\* length different from num_time_intervals, shorter or longer.
C9_SequenceLengthsChecked ==
    (/\ pc # "start"
     /\ \E field \in {"demand", "required_couriers"} :
           SeqLens(field) # {i.num_time_intervals}) =>
        /\ pc = "error"
        /\ err.at = "instance"
        /\ NothingBuilt

-----------------------------------------------------------------------------
(* Properties of the results record (SpecResults) *)

\* required is zero in every scenario at area a and period theta
ZeroRequired(a, theta) ==
    \A s \in Range(inst.scenarios) : inst.srequired[<<s, a, theta>>] = Rat(0)

\* C8: for every solved model and every area and period whose required is
\* zero in every scenario, extraction reports 0 for the outsourced count, the
\* outsourced percentage and the in-house count, and completes without a
\* division by zero, also when ub_reg of the region or ub_global is 0.
C8_ZeroRequiredReported ==
    (Solved /\ pc # "solved") =>
        /\ pc = "done"
        /\ err.kind # "ZeroDivisionError"
        /\ \A a \in Range(inst.areas), theta \in Range(inst.periods) :
              ZeroRequired(a, theta) =>
                /\ results[1].outsourced_parcels[a][theta + 1] = Rat(0)
                /\ results[1].inhouse_parcels[a][theta + 1] = Rat(0)
                /\ ParcelEstimates(inst, val, a, theta).outsourced_pct = Rat(0)

\* the scenarios of positive required at area a and period theta
PositiveScenarios(a, theta) ==
    SelectSeq(inst.scenarios,
              LAMBDA s : RLt(Rat(0), inst.srequired[<<s, a, theta>>]))

\* (required - x) * demand / required of scenario s, clamped to >= 0
ScenarioOutsourced(s, a, theta) ==
    RMax(RDiv(RMul(RSub(inst.srequired[<<s, a, theta>>],
                        Rat(XV(val, a, theta))),
                   inst.sdemand[<<s, a, theta>>]),
              inst.srequired[<<s, a, theta>>]),
         Rat(0))

\* demand * x / required of scenario s
ScenarioInhouse(s, a, theta) ==
    RDiv(RMul(inst.sdemand[<<s, a, theta>>], Rat(XV(val, a, theta))),
         inst.srequired[<<s, a, theta>>])

\* C10: for every area and period with a scenario of positive required, the
\* reported outsourced count is the average over those scenarios of each
\* scenario's (required - x) * demand / required clamped to >= 0, and the
\* reported in-house count the average of demand * x / required.
C10_PerScenarioClamp ==
    pc = "done" =>
        \A a \in Range(inst.areas), theta \in Range(inst.periods) :
            PositiveScenarios(a, theta) # <<>> =>
              /\ results[1].outsourced_parcels[a][theta + 1] =
                    Mean(Map(PositiveScenarios(a, theta),
                             LAMBDA s : ScenarioOutsourced(s, a, theta)))
              /\ results[1].inhouse_parcels[a][theta + 1] =
                    Mean(Map(PositiveScenarios(a, theta),
                             LAMBDA s : ScenarioInhouse(s, a, theta)))

-----------------------------------------------------------------------------
(* Shifts of the flex and partflex models (SpecModel) *)

\* shift_len of __build_flexible_model for 8 periods
ShiftLength == 4

\* The region's shift starts of the last ShiftLength periods up to theta
RecentStarts(region, theta) ==
    SumOver({t \in Range(inst.periods) :
                t <= theta /\ t > theta - ShiftLength},
            LAMBDA t : ZminusSum(val, RegionAreas(region), t))

\* C11: in the flex and partflex variants with shift length 4, for every
\* region and period theta the sum of x over the region equals the sum of
\* the region's zminus over the periods max(0, theta - 3)..theta; the
\* couriers that start at t end their shift at t + 3, zminus is 0 in the
\* last 3 periods and zplus is 0 in the first 3 periods.
C11_RegionalStaffing ==
    (Solved /\ sargs.model \in {"flex", "partflex"}) =>
        /\ \A region \in Range(inst.regions), theta \in Range(inst.periods) :
              /\ XSum(val, RegionAreas(region), theta)
                    = RecentStarts(region, theta)
              /\ theta + ShiftLength <= inst.n_periods =>
                    ZplusSum(val, RegionAreas(region), theta + ShiftLength - 1)
                      = ZminusSum(val, RegionAreas(region), theta)
        /\ \A a \in Range(inst.areas), theta \in Range(inst.periods) :
              /\ theta > inst.n_periods - ShiftLength =>
                    ZminusV(val, a, theta) = 0
              /\ theta < ShiftLength - 1 => ZplusV(val, a, theta) = 0

\* A solved flex model where a region's couriers start a shift after the
\* first period, one of them moves to another area of the region during the
\* shift, and the region is empty before the shift and after its 4 periods.
C11_Witness ==
    /\ Solved
    /\ sargs.model = "flex"
    /\ \E region \in Range(inst.regions), t \in {1, 2, 3} :
          /\ ZminusSum(val, RegionAreas(region), t) > 0
          /\ XSum(val, RegionAreas(region), t - 1) = 0
          /\ XSum(val, RegionAreas(region), t + ShiftLength - 1) > 0
          /\ XSum(val, RegionAreas(region), t + ShiftLength) = 0
          /\ \E a \in RegionAreas(region) :
                \E theta \in (t + 1)..(t + ShiftLength - 1) :
                    YIn(val, a, theta) > 0

=============================================================================
